---- MODULE Spec2Model ----
(***************************************************************************)
(* gpumon (src/src/main.rs): per-process sampling of the DRM fdinfo        *)
(* accounting files.  Process::read_fdinfo parses every file of            *)
(* /proc/<pid>/fdinfo, normalises each client record into a DrmData,       *)
(* sums the records per physical device and reconciles the process's       *)
(* device table (gpu_usage), where GpuUsage::update derives the rates.     *)
(*                                                                         *)
(* Representation.  A String is a TLA+ string.  A u64 / u32 and a          *)
(* Duration (in nanoseconds) are unbounded naturals kept as little-endian  *)
(* sequences of base-1000 limbs without leading zero limbs (<<>> is 0), so *)
(* the 64-bit limits of the program are the real ones.  An Instant is a    *)
(* number of milliseconds.  An f32 is kept exact: as_secs_f32() of a       *)
(* Duration is its nanosecond count, of an Instant difference its          *)
(* millisecond count, and a rate is their product (unit 10^-12); the       *)
(* rounding of f32 is not modelled.                                        *)
(***************************************************************************)
EXTENDS Integers, Sequences, FiniteSets, TLC

---------------------------------------------------------------------------
(* Evaluation.  An operator binds each value it uses more than once as the *)
(* element of a one-element set, Once({ e : x \in {v} }), so that v is     *)
(* computed once however the expression is evaluated.                      *)

Once(S) ==
    CHOOSE r \in S : TRUE

---------------------------------------------------------------------------
(* Natural numbers of any size                                             *)

Limb(a, i) ==
    IF i <= Len(a) THEN a[i] ELSE 0

\* a without its leading zero limbs
Norm(a) ==
    Once({Once({IF nz = {} THEN <<>>
                ELSE SubSeq(x, 1, CHOOSE i \in nz : \A j \in nz : j <= i) :
                nz \in {{i \in 1..Len(x) : x[i] # 0}}}) :
          x \in {a}})

RECURSIVE AddC(_, _, _, _)
AddC(a, b, i, c) ==
    IF i > Len(a) /\ i > Len(b)
    THEN (IF c = 0 THEN <<>> ELSE <<c>>)
    ELSE Once({<<s % 1000>> \o AddC(a, b, i + 1, s \div 1000) :
               s \in {Limb(a, i) + Limb(b, i) + c}})

BigAdd(a, b) ==
    Once({AddC(x, y, 1, 0) : x \in {a}, y \in {b}})

RECURSIVE SubB(_, _, _, _)
SubB(a, b, i, br) ==
    IF i > Len(a) THEN <<>>
    ELSE Once({<<IF d < 0 THEN d + 1000 ELSE d>>
                   \o SubB(a, b, i + 1, IF d < 0 THEN 1 ELSE 0) :
               d \in {a[i] - Limb(b, i) - br}})

RECURSIVE LeqFrom(_, _, _)
LeqFrom(a, b, i) ==
    IF i = 0 THEN TRUE
    ELSE IF a[i] # b[i] THEN a[i] < b[i]
    ELSE LeqFrom(a, b, i - 1)

BigLeq(a, b) ==
    Once({IF Len(x) # Len(y) THEN Len(x) < Len(y) ELSE LeqFrom(x, y, Len(x)) :
          x \in {a}, y \in {b}})

\* a - b, for b <= a
BigSub(a, b) ==
    Norm(Once({SubB(x, y, 1, 0) : x \in {a}, y \in {b}}))

RECURSIVE MulC(_, _, _, _)
MulC(a, k, i, c) ==
    IF i > Len(a) /\ c = 0 THEN <<>>
    ELSE Once({<<s % 1000>> \o MulC(a, k, i + 1, s \div 1000) :
               s \in {Limb(a, i) * k + c}})

\* a * k, for a small k
BigMulSmall(a, k) ==
    Norm(Once({MulC(x, m, 1, 0) : x \in {a}, m \in {k}}))

RECURSIVE DivR(_, _, _, _)
DivR(a, k, i, r) ==
    IF i = 0 THEN <<>>
    ELSE Once({DivR(a, k, i - 1, cur % k) \o <<cur \div k>> :
               cur \in {r * 1000 + a[i]}})

\* a / k rounded down, for a small k
BigDivSmall(a, k) ==
    Norm(Once({DivR(x, k, Len(x), 0) : x \in {a}}))

\* a * 1000^n
BigShift(a, n) ==
    Once({IF x = <<>> THEN x ELSE [i \in 1..n |-> 0] \o x : x \in {a}})

DigitOf ==
    "0" :> 0 @@ "1" :> 1 @@ "2" :> 2 @@ "3" :> 3 @@ "4" :> 4 @@
    "5" :> 5 @@ "6" :> 6 @@ "7" :> 7 @@ "8" :> 8 @@ "9" :> 9

IsDigits(s) ==
    \A i \in 1..Len(s) : SubSeq(s, i, i) \in DOMAIN DigitOf

\* the digit of weight 10^(p-1) of the digit string s (0 beyond its length)
DigitAt(s, p) ==
    IF p <= Len(s) THEN DigitOf[SubSeq(s, Len(s) - p + 1, Len(s) - p + 1)] ELSE 0

\* the value of a string of decimal digits: three digits make one limb
Dec(s) ==
    Once({Norm([i \in 1..((Len(x) + 2) \div 3) |->
                  DigitAt(x, 3 * i - 2) + 10 * DigitAt(x, 3 * i - 1)
                      + 100 * DigitAt(x, 3 * i)]) :
          x \in {s}})

U32Max ==
    Dec("4294967295")

U64Max ==
    Dec("18446744073709551615")

\* Duration::MAX = u64::MAX seconds + 999_999_999 ns, in nanoseconds
DurationMax ==
    BigAdd(BigShift(U64Max, 3), <<999, 999, 999>>)

\* x modulo 2^64, for x < 2^65
Wrap64(x) ==
    Once({IF BigLeq(v, U64Max) THEN v ELSE BigSub(v, BigAdd(U64Max, <<1>>)) :
          v \in {x}})

---------------------------------------------------------------------------
(* Strings                                                                 *)

DRM_CLIENT_ID ==
    "drm-client-id"

\* char::is_whitespace, on the characters a line of text can hold
WhiteSpace ==
    {" ", "\t", "\r", "\f"}

starts_with(s, p) ==
    Len(s) >= Len(p) /\ SubSeq(s, 1, Len(p)) = p

\* the least element of a non-empty set of numbers
Least(S) ==
    Once({CHOOSE h \in T : \A j \in T : h <= j : T \in {S}})

\* the greatest element of a non-empty set of numbers
Greatest(S) ==
    Once({CHOOSE h \in T : \A j \in T : j <= h : T \in {S}})

\* str::split_once on a one-character separator
split_once(s, c) ==
    Once({Once({IF hits = {}
                THEN [some |-> FALSE, l |-> "", r |-> ""]
                ELSE Once({[some |-> TRUE, l |-> SubSeq(x, 1, i - 1),
                            r |-> SubSeq(x, i + 1, Len(x))] :
                           i \in {Least(hits)}}) :
                hits \in {{i \in 1..Len(x) : SubSeq(x, i, i) = c}}}) :
          x \in {s}})

trim_start(s) ==
    Once({Once({IF keep = {} THEN "" ELSE SubSeq(x, Least(keep), Len(x)) :
                keep \in {{i \in 1..Len(x) : SubSeq(x, i, i) \notin WhiteSpace}}}) :
          x \in {s}})

\* str::parse::<uN>(), max the largest value of uN: an optional '+', then
\* one or more decimal digits, the value at most max
parse(s, max) ==
    Once({IF digits = "" \/ ~IsDigits(digits) THEN [ok |-> FALSE, val |-> <<>>]
          ELSE Once({IF ~BigLeq(v, max) THEN [ok |-> FALSE, val |-> <<>>]
                     ELSE [ok |-> TRUE, val |-> v] :
                     v \in {Dec(digits)}}) :
          digits \in {IF starts_with(s, "+") THEN Tail(s) ELSE s}})

---------------------------------------------------------------------------
(* Unit conversion (the two closures of read_fdinfo)                       *)

DurationZERO ==
    <<>>

duration_from_string(s) ==
    Once({IF ~split.some THEN DurationZERO
          ELSE Once({IF ~amount.ok THEN DurationZERO
                     ELSE CASE split.r = "ns" -> amount.val
                            [] split.r = "us" -> BigShift(amount.val, 1)
                            [] split.r = "ms" -> BigShift(amount.val, 2)
                            [] OTHER -> DurationZERO :
                     amount \in {parse(split.l, U64Max)}}) :
          split \in {split_once(s, " ")}})

\* amount * 1024 in u64 arithmetic without overflow checks:
\* (amount mod 2^54) * 1024
wrapping_mul_1024(amount) ==
    Once({Once({BigMulSmall(BigSub(a, BigMulSmall(Dec("18014398509481984"),
                                                  Limb(hi, 1) + 1000 * Limb(hi, 2))),
                            1024) :
                hi \in {BigDivSmall(BigDivSmall(BigDivSmall(BigDivSmall(
                          BigDivSmall(BigDivSmall(a, 1024), 1024), 1024), 1024),
                          1024), 16)}}) :
          a \in {amount}})

\* u64 * 1024.  overflow_checks: the build panics on integer overflow (the
\* debug profile) or wraps (the release profile)
mul_1024(amount, overflow_checks) ==
    Once({IF BigLeq(product, U64Max) THEN [panic |-> "", val |-> product]
          ELSE IF overflow_checks
          THEN [panic |-> "attempt to multiply with overflow", val |-> <<>>]
          ELSE [panic |-> "", val |-> wrapping_mul_1024(amount)] :
          product \in {BigMulSmall(amount, 1024)}})

ram_from_string(s, overflow_checks) ==
    Once({IF ~split.some THEN [panic |-> "", val |-> <<>>]
          ELSE Once({CASE split.r = "kib" -> [panic |-> "", val |-> amount]
                       [] split.r = "mib" ->
                            [panic |-> "", val |-> BigDivSmall(amount, 1024)]
                       [] OTHER -> mul_1024(amount, overflow_checks) :
                     amount \in {Once({IF parsed.ok THEN parsed.val ELSE <<>> :
                                       parsed \in {parse(split.l, U64Max)}})}}) :
          split \in {split_once(s, " ")}})

---------------------------------------------------------------------------
(* DrmData                                                                 *)

DrmData_new ==
    [render_time |-> DurationZERO, computation_time |-> DurationZERO,
     copy_time |-> DurationZERO, encode_time |-> DurationZERO,
     decode_time |-> DurationZERO, video_enhance_time |-> DurationZERO,
     vram |-> <<>>, gtt |-> <<>>, cpuram |-> <<>>]

\* Duration += Duration: panics beyond Duration::MAX in every build
duration_add(a, b) ==
    Once({IF BigLeq(sum, DurationMax) THEN [panic |-> "", val |-> sum]
          ELSE [panic |-> "overflow when adding durations", val |-> <<>>] :
          sum \in {BigAdd(a, b)}})

\* u64 += u64
u64_add(a, b, overflow_checks) ==
    Once({IF BigLeq(sum, U64Max) THEN [panic |-> "", val |-> sum]
          ELSE IF overflow_checks
          THEN [panic |-> "attempt to add with overflow", val |-> <<>>]
          ELSE [panic |-> "", val |-> Wrap64(sum)] :
          sum \in {BigAdd(a, b)}})

\* the first panic of a sequence of results, "" when none panics
first_panic(results) ==
    Once({Once({IF bad = {} THEN "" ELSE rs[Least(bad)].panic :
                bad \in {{i \in 1..Len(rs) : rs[i].panic # ""}}}) :
          rs \in {results}})

DrmData_add(self, other, overflow_checks) ==
    Once({Once({[panic |-> first_panic(<<render, computation, copy, encode, decode,
                                         video_enhance, vram, gtt, cpuram>>),
                 data |-> [render_time |-> render.val,
                           computation_time |-> computation.val,
                           copy_time |-> copy.val, encode_time |-> encode.val,
                           decode_time |-> decode.val,
                           video_enhance_time |-> video_enhance.val,
                           vram |-> vram.val, gtt |-> gtt.val, cpuram |-> cpuram.val]] :
                render \in {duration_add(x.render_time, y.render_time)},
                computation \in {duration_add(x.computation_time, y.computation_time)},
                copy \in {duration_add(x.copy_time, y.copy_time)},
                encode \in {duration_add(x.encode_time, y.encode_time)},
                decode \in {duration_add(x.decode_time, y.decode_time)},
                video_enhance \in {duration_add(x.video_enhance_time,
                                                y.video_enhance_time)},
                vram \in {u64_add(x.vram, y.vram, overflow_checks)},
                gtt \in {u64_add(x.gtt, y.gtt, overflow_checks)},
                cpuram \in {u64_add(x.cpuram, y.cpuram, overflow_checks)}}) :
          x \in {self}, y \in {other}})

---------------------------------------------------------------------------
(* Record Parser: one fdinfo file -> HashMap<String,String>                *)

\* the (key, value) pair of a line: split at the first colon, ("", "")
\* without one
key_value(line) ==
    Once({IF split.some THEN <<split.l, trim_start(split.r)>> ELSE <<"", "">> :
          split \in {split_once(line, ":")}})

\* collect::<HashMap<K,V>>() of a sequence of (key, value) pairs: a later
\* pair replaces an earlier one with the same key
collect(pairs) ==
    Once({[k \in {ps[i][1] : i \in 1..Len(ps)} |->
             ps[Greatest({i \in 1..Len(ps) : ps[i][1] = k})][2]] :
          ps \in {pairs}})

IsDrmLine(l) ==
    starts_with(l, "drm")

\* A file is [open |-> whether File::open succeeds, lines |-> its lines].
parse_file(f) ==
    IF ~f.open THEN <<>>
    ELSE Once({collect([i \in 1..Len(drm) |-> key_value(drm[i])]) :
               drm \in {SelectSeq(f.lines, IsDrmLine)}})

HasClientId(e) ==
    DRM_CLIENT_ID \in DOMAIN e

\* e[DRM_CLIENT_ID].parse().unwrap_or(0), as u32
client_key(e) ==
    Once({IF id.ok THEN id.val ELSE <<>> : id \in {parse(e[DRM_CLIENT_ID], U32Max)}})

\* drm_map without the filter of line 212: a record without a client id
\* is kept under the key 0
drm_map_of_unfiltered(files) ==
    Once({collect([i \in 1..Len(all) |->
                     <<IF HasClientId(all[i]) THEN client_key(all[i]) ELSE <<>>,
                       all[i]>>]) :
          all \in {[i \in 1..Len(files) |-> parse_file(files[i])]}})

\* drm_map: the records that carry a client id, by parsed client id; the
\* files are in read_dir order
drm_map_of(files) ==
    Once({collect([i \in 1..Len(kept) |-> <<client_key(kept[i]), kept[i]>>]) :
          kept \in {SelectSeq([i \in 1..Len(files) |-> parse_file(files[i])],
                              HasClientId)}})

---------------------------------------------------------------------------
(* Engine/Memory Normalizer: one record -> (pdev, DrmData)                 *)

engine(value, key) ==
    IF key \in DOMAIN value THEN duration_from_string(value[key]) ELSE DurationZERO

memory(value, key, overflow_checks) ==
    IF key \in DOMAIN value THEN ram_from_string(value[key], overflow_checks)
    ELSE [panic |-> "", val |-> <<>>]

\* encode_time without the video engine
encode_sum_without_video(enc, enc_1, video) ==
    duration_add(enc, enc_1)

\* encode_time += enc; += enc_1; += video
encode_sum(enc, enc_1, video) ==
    Once({IF first.panic # "" THEN first ELSE duration_add(first.val, video) :
          first \in {duration_add(enc, enc_1)}})

to_drm_data(value, overflow_checks) ==
    Once({Once({[panic |-> first_panic(<<render, decode, encode, vram, gtt, cpuram>>),
                 pdev |-> IF "drm-pdev" \in DOMAIN v THEN v["drm-pdev"] ELSE "",
                 data |-> [render_time |-> render.val,
                           computation_time |-> engine(v, "drm-engine-compute"),
                           copy_time |-> engine(v, "drm-engine-copy"),
                           encode_time |-> encode.val,
                           decode_time |-> decode.val,
                           video_enhance_time |-> engine(v, "drm-engine-video-enhance"),
                           vram |-> vram.val, gtt |-> gtt.val, cpuram |-> cpuram.val]] :
                render \in {duration_add(engine(v, "drm-engine-render"),
                                         engine(v, "drm-engine-gfx"))},
                decode \in {duration_add(engine(v, "drm-engine-dec"),
                                         engine(v, "drm-engine-video"))},
                encode \in {encode_sum(engine(v, "drm-engine-enc"),
                                       engine(v, "drm-engine-enc_1"),
                                       engine(v, "drm-engine-video"))},
                vram \in {memory(v, "drm-memory-vram", overflow_checks)},
                gtt \in {memory(v, "drm-memory-gtt", overflow_checks)},
                cpuram \in {memory(v, "drm-memory-cpu", overflow_checks)}}) :
          v \in {value}})

---------------------------------------------------------------------------
(* Device Reducer                                                          *)

\* DrmData::new() plus the entries of the keys, one after the other
RECURSIVE sum_entries(_, _, _)
sum_entries(keys, entries, overflow_checks) ==
    IF keys = {} THEN [panic |-> "", data |-> DrmData_new]
    ELSE Once({Once({IF rest.panic # "" THEN rest
                     ELSE DrmData_add(rest.data, entries[k].data, overflow_checks) :
                     rest \in {sum_entries(keys \ {k}, entries, overflow_checks)}}) :
               k \in {CHOOSE x \in keys : TRUE}})

\* reduced_drm_data: per pdev, the sum of the entries of the pdev
reduce(entries, overflow_checks) ==
    Once({Once({Once({[panic |-> IF bad = {} THEN "" ELSE sums[Once(bad)].panic,
                       map |-> [pdev \in DOMAIN sums |-> sums[pdev].data]] :
                      bad \in {{pdev \in DOMAIN sums : sums[pdev].panic # ""}}}) :
                sums \in {[pdev \in {es[k].pdev : k \in DOMAIN es} |->
                             sum_entries({k \in DOMAIN es : es[k].pdev = pdev},
                                         es, overflow_checks)]}}) :
          es \in {entries}})

---------------------------------------------------------------------------
(* Usage Rate Calculator                                                   *)

GpuUsage_new(calc_timestamp) ==
    [render |-> <<>>, computation |-> <<>>, copy |-> <<>>, encode |-> <<>>,
     decode |-> <<>>, video_enhance |-> <<>>,
     last_drm_data |-> DrmData_new, last_calc_timestamp |-> calc_timestamp]

\* Duration - Duration: panics below zero in every build
duration_sub(a, b) ==
    Once({IF BigLeq(y, x) THEN [panic |-> "", val |-> BigSub(x, y)]
          ELSE [panic |-> "overflow when subtracting durations", val |-> <<>>] :
          x \in {a}, y \in {b}})

\* the busy-time delta alone, not scaled by the elapsed time
rate_unscaled(new, last, duration_fraction) ==
    duration_sub(new, last)

\* (new - last).as_secs_f32() * duration_fraction
rate(new, last, duration_fraction) ==
    Once({[panic |-> delta.panic, val |-> BigMulSmall(delta.val, duration_fraction)] :
          delta \in {duration_sub(new, last)}})

\* an update that stamps the entry and keeps its old snapshot and rates
GpuUsage_update_stamp_only(self, new_drm, calc_timestamp) ==
    [panic |-> "", usage |-> [self EXCEPT !.last_calc_timestamp = calc_timestamp]]

GpuUsage_update(self, new_drm, calc_timestamp) ==
    Once({Once({[panic |-> first_panic(<<render, computation, copy, encode, decode,
                                         video_enhance>>),
                 usage |-> [render |-> render.val, computation |-> computation.val,
                            copy |-> copy.val, encode |-> encode.val,
                            decode |-> decode.val,
                            video_enhance |-> video_enhance.val,
                            last_drm_data |-> new,
                            last_calc_timestamp |-> calc_timestamp]] :
                render \in {rate(new.render_time, last.render_time, duration_fraction)},
                computation \in {rate(new.computation_time, last.computation_time,
                                      duration_fraction)},
                copy \in {rate(new.copy_time, last.copy_time, duration_fraction)},
                encode \in {rate(new.encode_time, last.encode_time, duration_fraction)},
                decode \in {rate(new.decode_time, last.decode_time, duration_fraction)},
                video_enhance \in {rate(new.video_enhance_time,
                                        last.video_enhance_time, duration_fraction)}}) :
          new \in {new_drm},
          last \in {self.last_drm_data},
          duration_fraction \in {calc_timestamp - self.last_calc_timestamp}})

---------------------------------------------------------------------------
(* The accounting files a process may show in /proc/<pid>/fdinfo           *)

File(lines) ==
    [open |-> TRUE, lines |-> lines]

\* a directory entry that File::open cannot open
NoFile ==
    [open |-> FALSE, lines |-> <<>>]

PdevA ==
    "0000:01:00.0"

PdevB ==
    "0000:02:00.0"

\* client 1 on device A
FdA1 ==
    File(<<"pos:\t0", "flags:\t02100002", "drm-driver:\tamdgpu",
           "drm-client-id:\t1", "drm-pdev:\t0000:01:00.0",
           "drm-engine-render:\t100 ms", "drm-memory-vram:\t5 kib">>)

\* client 1 on device A, half a second of work later
FdA1Later ==
    File(<<"pos:\t0", "flags:\t02100002", "drm-driver:\tamdgpu",
           "drm-client-id:\t1", "drm-pdev:\t0000:01:00.0",
           "drm-engine-render:\t150 ms", "drm-memory-vram:\t5 kib">>)

\* client 2 on device A
FdA2 ==
    File(<<"drm-driver:\ti915", "drm-client-id:\t2", "drm-pdev:\t0000:01:00.0",
           "drm-engine-gfx:\t10 us", "drm-engine-video:\t7 ns",
           "drm-engine-enc:\t1 ms", "drm-memory-gtt:\t2048 mib">>)

\* client 3 on device B
FdB3 ==
    File(<<"drm-client-id:\t3", "drm-pdev:\t0000:02:00.0",
           "drm-engine-compute:\t3 ms", "drm-engine-copy:\t4 us",
           "drm-engine-dec:\t5 ns", "drm-engine-enc_1:\t6 ns",
           "drm-engine-video-enhance:\t8 ns", "drm-memory-cpu:\t1 KiB">>)

\* a DRM file without a client id
FdNoClient ==
    File(<<"drm-driver:\tamdgpu", "drm-pdev:\t0000:02:00.0",
           "drm-engine-render:\t999 ms", "drm-memory-vram:\t7 kib">>)

\* client 1 on device A with damaged values: a line without a colon, a
\* malformed integer, an unknown unit, a missing separator
FdMalformed ==
    File(<<"drm-junk", "drm-client-id:\t1", "drm-pdev:\t0000:01:00.0",
           "drm-engine-render:\t1e3 ms", "drm-engine-copy:\t5 s",
           "drm-engine-compute:\t12ms", "drm-memory-vram:\tmany kib">>)

\* client 5 on device A with integers at the top of the 64-bit range
FdTop ==
    File(<<"drm-client-id:\t5", "drm-pdev:\t0000:01:00.0",
           "drm-engine-render:\t18446744073709551615 ms",
           "drm-memory-vram:\t18446744073709551615 b",
           "drm-memory-gtt:\t18446744073709551616 kib">>)

\* client 6 on device A
FdBigKib ==
    File(<<"drm-client-id:\t6", "drm-pdev:\t0000:01:00.0",
           "drm-memory-vram:\t18446744073709551615 kib">>)

\* two clients on device A whose client ids are no u32
FdIdX ==
    File(<<"drm-client-id:\tx", "drm-pdev:\t0000:01:00.0",
           "drm-engine-render:\t1 ms">>)

FdIdWide ==
    File(<<"drm-client-id:\t4294967296", "drm-pdev:\t0000:01:00.0",
           "drm-engine-render:\t2 ms">>)

\* client 7, no device id
FdNoPdev ==
    File(<<"drm-client-id:\t7", "drm-engine-render:\t4 ms">>)

Pool ==
    {FdA1, FdA1Later, FdA2, FdB3, FdNoClient, FdMalformed, FdTop, FdBigKib,
     FdIdX, FdIdWide, FdNoPdev, NoFile}

\* the largest directory listing of FirstDirs
MaxFiles ==
    2

\* the number of read_fdinfo calls of a behaviour of Spec
MaxTicks ==
    2

\* A directory is [ok |-> whether fs::read_dir succeeds, files |-> its
\* files in read_dir order].
Dir(files) ==
    [ok |-> TRUE, files |-> files]

NoDir ==
    [ok |-> FALSE, files |-> <<>>]

\* every listing of at most MaxFiles files of the Pool
FirstDirs ==
    {Dir(fs) : fs \in UNION {[1..n -> Pool] : n \in 0..MaxFiles}}

\* the listings of the sampling ticks
TickDirs ==
    {NoDir, Dir(<<>>), Dir(<<FdA1>>), Dir(<<FdA1Later>>), Dir(<<FdA1, FdA2>>),
     Dir(<<FdA1Later, FdA2>>), Dir(<<FdA1, FdB3>>), Dir(<<FdB3>>),
     Dir(<<FdNoClient>>), Dir(<<FdMalformed>>), Dir(<<FdTop>>),
     Dir(<<FdA1, FdBigKib>>), Dir(<<NoFile, FdNoPdev>>)}

\* milliseconds between two calls: the sleep of the loop, or half a second
Dts ==
    {70, 500}

---------------------------------------------------------------------------
(* Process::read_fdinfo                                                    *)

VARIABLES
    gpu_usage,        \* Process.gpu_usage: pdev -> GpuUsage
    clock,            \* the monotonic clock Instant::now() reads, in ms
    overflow_checks,  \* the build profile: integer overflow panics or wraps
    panicked,         \* "" while the program runs, else the panic message
    ticks,            \* the number of read_fdinfo calls so far
    dir,              \* the directory the last call read
    prev_usage,       \* gpu_usage as the last call found it
    result,           \* how the last call ended
    tick_drm_map,     \* the local drm_map of the last call
    tick_reduced,     \* the local reduced_drm_data of the last call
    seen,             \* client id -> the engine times its last file showed
    monotone,         \* no client's engine time has been seen to decrease
    arg,              \* the argument of a conversion under test
    ret               \* its result

vars ==
    <<gpu_usage, clock, overflow_checks, panicked, ticks, dir, prev_usage,
      result, tick_drm_map, tick_reduced, seen, monotone, arg, ret>>

\* lines 196-214 and 261-313: the client records of a directory, their
\* DrmData, and the sum per pdev; panic is the first panic on the way
snapshots(files, checks) ==
    Once({Once({Once({[drm_map |-> drm_map,
                       drm_data |-> drm_data,
                       reduced |-> reduced.map,
                       panic |-> IF bad # {} THEN drm_data[Once(bad)].panic
                                 ELSE reduced.panic] :
                      bad \in {{k \in DOMAIN drm_data : drm_data[k].panic # ""}},
                      reduced \in {reduce(drm_data, checks)}}) :
                drm_data \in {[k \in DOMAIN drm_map |->
                                 to_drm_data(drm_map[k], checks)]}}) :
          drm_map \in {drm_map_of(files)}})

\* the keys of gpu_usage that the tick does not report (pdevs, lines 316-319)
stale(old, reported) ==
    old \ reported

\* gpu_usage after lines 315-327, or the panic of an update
reconcile(usage, reduced, now) ==
    Once({Once({[panic |-> IF failed = {} THEN "" ELSE updated[Once(failed)].panic,
                 usage |-> [pdev \in (DOMAIN usage \cup DOMAIN reduced)
                                        \ stale(DOMAIN usage, DOMAIN reduced) |->
                              IF pdev \in DOMAIN reduced THEN updated[pdev].usage
                              ELSE usage[pdev]]] :
                failed \in {{pdev \in DOMAIN reduced : updated[pdev].panic # ""}}}) :
          updated \in {[pdev \in DOMAIN reduced |->
                          GpuUsage_update(IF pdev \in DOMAIN usage THEN usage[pdev]
                                          ELSE GpuUsage_new(now),
                                          reduced[pdev], now)]}})

EngineTimes ==
    {"render_time", "computation_time", "copy_time", "encode_time",
     "decode_time", "video_enhance_time"}

\* the client contexts a directory shows: <<client id, DrmData, pdev>> per
\* file that opens and carries a client id
contexts(files) ==
    Once({{Once({<<kept[i][DRM_CLIENT_ID], e.data, e.pdev>> :
                 e \in {to_drm_data(kept[i], FALSE)}}) :
              i \in 1..Len(kept)} :
          kept \in {SelectSeq([i \in 1..Len(files) |-> parse_file(files[i])],
                              HasClientId)}})

\* every context shows one value and none below the value last seen
steady(cs, last) ==
    /\ \A c1, c2 \in cs : c1[1] = c2[1] => c1 = c2
    /\ \A c \in cs : c[1] \in DOMAIN last =>
            \A f \in EngineTimes : BigLeq(last[c[1]][f], c[2][f])

read_fdinfo(d, dt) ==
    \E now \in {clock + dt}, snap \in {snapshots(d.files, overflow_checks)},
       cs \in {contexts(d.files)} :
      \E done \in {reconcile(gpu_usage, snap.reduced, now)} :
        /\ panicked = ""
        /\ clock' = now
        /\ ticks' = ticks + 1
        /\ dir' = d
        /\ prev_usage' = gpu_usage
        /\ tick_drm_map' = (IF d.ok THEN snap.drm_map ELSE <<>>)
        /\ tick_reduced' = (IF d.ok THEN snap.reduced ELSE <<>>)
        /\ monotone' = (monotone /\ steady(cs, seen))
        /\ seen' = [id \in DOMAIN seen \cup {c[1] : c \in cs} |->
                      IF \E c \in cs : c[1] = id
                      THEN (CHOOSE c \in cs : c[1] = id)[2]
                      ELSE seen[id]]
        /\ UNCHANGED <<overflow_checks, arg, ret>>
        /\ IF ~d.ok
           THEN result' = "no directory" /\ UNCHANGED <<gpu_usage, panicked>>
           ELSE IF DOMAIN snap.drm_map = {}
           THEN result' = "no client" /\ UNCHANGED <<gpu_usage, panicked>>
           ELSE IF snap.panic # ""
           THEN result' = "panic" /\ panicked' = snap.panic /\ UNCHANGED gpu_usage
           ELSE IF done.panic # ""
           THEN result' = "panic" /\ panicked' = done.panic /\ UNCHANGED gpu_usage
           ELSE result' = "reconciled" /\ gpu_usage' = done.usage
                /\ UNCHANGED panicked

\* Process { gpu_usage: HashMap::new(), .. }, in either build profile
Fresh ==
    /\ gpu_usage = <<>>
    /\ clock = 0
    /\ overflow_checks \in BOOLEAN
    /\ panicked = ""
    /\ ticks = 0
    /\ dir = NoDir
    /\ prev_usage = <<>>
    /\ result = "new"
    /\ tick_drm_map = <<>>
    /\ tick_reduced = <<>>
    /\ seen = <<>>
    /\ monotone = TRUE
    /\ ret = [of |-> "", panic |-> "", val |-> <<>>]

Init ==
    Fresh /\ arg = ""

\* the sampling loop: Process::update, tick after tick
Next ==
    \E d \in TickDirs, dt \in Dts : ticks < MaxTicks /\ read_fdinfo(d, dt)

Spec ==
    Init /\ [][Next]_vars

\* Process::new: the first read_fdinfo of a process, on any directory
NextFirst ==
    \E d \in FirstDirs : ticks = 0 /\ read_fdinfo(d, 70)

SpecFirst ==
    Init /\ [][NextFirst]_vars

---------------------------------------------------------------------------
(* The unit conversions on their own                                       *)

Amounts ==
    {"0", "1", "007", "+5", "-1", "1023", "1024", "1025", "abc", "", "12.5",
     "18014398509481983", "18014398509481984",
     "18446744073709551615", "18446744073709551616"}

Units ==
    {"ns", "us", "ms", "s", "kib", "mib", "b", "KiB", "MiB", ""}

ValueStrings ==
    {a \o sep \o u : a \in Amounts, sep \in {" ", ""}, u \in Units}
        \cup {"5  ms", " 5 ms", "5 ms "}

InitParse ==
    Fresh /\ arg \in ValueStrings

tick_unchanged ==
    UNCHANGED <<gpu_usage, clock, overflow_checks, panicked, ticks, dir,
                prev_usage, result, tick_drm_map, tick_reduced, seen, monotone, arg>>

call_duration_from_string ==
    /\ ret.of = ""
    /\ ret' = [of |-> "duration_from_string", panic |-> "",
               val |-> duration_from_string(arg)]
    /\ tick_unchanged

call_ram_from_string ==
    /\ ret.of = ""
    /\ \E r \in {ram_from_string(arg, overflow_checks)} :
          ret' = [of |-> "ram_from_string", panic |-> r.panic, val |-> r.val]
    /\ tick_unchanged

NextParse ==
    call_duration_from_string \/ call_ram_from_string

SpecParse ==
    InitParse /\ [][NextParse]_vars

---------------------------------------------------------------------------
(* The normalizer on its own                                               *)

\* the largest number of keys of a record of Records
MaxKeys ==
    3

NormKeys ==
    {"drm-engine-render", "drm-engine-gfx", "drm-engine-dec", "drm-engine-enc",
     "drm-engine-enc_1", "drm-engine-video", "drm-engine-compute",
     "drm-engine-video-enhance", "drm-engine-copy",
     "drm-engine-unknown", "drm-memory-vram", "drm-pdev"}

NormValues ==
    {"3 ms", "5 us"}

Records ==
    UNION {[K -> NormValues] : K \in {S \in SUBSET NormKeys : Cardinality(S) <= MaxKeys}}

InitNormalize ==
    Fresh /\ arg \in Records

call_to_drm_data ==
    /\ ret.of = ""
    /\ \E r \in {to_drm_data(arg, overflow_checks)} :
          ret' = [of |-> "to_drm_data", panic |-> r.panic,
                  val |-> [pdev |-> r.pdev, data |-> r.data]]
    /\ tick_unchanged

NextNormalize ==
    call_to_drm_data

SpecNormalize ==
    InitNormalize /\ [][NextNormalize]_vars

---------------------------------------------------------------------------
(* Properties of read_fdinfo                                               *)

\* the device keys the process reports on the tick of the last call: the
\* pdev of every file that opens and carries a client id
reported ==
    IF dir.ok THEN {c[3] : c \in contexts(dir.files)} ELSE {}

\* the fields of DrmData
Fields ==
    EngineTimes \cup {"vram", "gtt", "cpuram"}

\* the rate fields of GpuUsage and the DrmData field each is computed from
Engines ==
    {[rate |-> "render", time |-> "render_time"],
     [rate |-> "computation", time |-> "computation_time"],
     [rate |-> "copy", time |-> "copy_time"],
     [rate |-> "encode", time |-> "encode_time"],
     [rate |-> "decode", time |-> "decode_time"],
     [rate |-> "video_enhance", time |-> "video_enhance_time"]}

\* the files of a listing whose parsed record carries a client id
with_client_id(files) ==
    SelectSeq(files, LAMBDA f : HasClientId(parse_file(f)))

\* the mathematical sum of field f over a set of client contexts
RECURSIVE exact_sum(_, _)
exact_sum(cs, f) ==
    IF cs = {} THEN <<>>
    ELSE Once({BigAdd(c[2][f], exact_sum(cs \ {c}, f)) : c \in {CHOOSE x \in cs : TRUE}})

\* C1: Eviction.  After every call that the program survives, gpu_usage
\* holds no device that the tick of the call did not report; a tick that
\* reports no device (no record with a client id, or an unreadable
\* directory) leaves gpu_usage empty.
C1_Eviction ==
    (ticks > 0 /\ panicked = "") => DOMAIN gpu_usage \subseteq reported

\* C2: No fatal error.  Whatever the accounting files hold, read_fdinfo
\* completes: the program never panics.
C2_NoFatalError ==
    panicked = ""

\* C3: Additivity.  After a call that stored the tick, the snapshot stored
\* for every reported device key is, field by field, the exact sum over the
\* client contexts (one per client id) that report the key.
C3_Additivity ==
    LET cs == contexts(dir.files)
    IN  (/\ result = "reconciled"
         /\ \A c1, c2 \in cs : c1[1] = c2[1] => c1 = c2)
            => \A pdev \in reported :
                  /\ pdev \in DOMAIN gpu_usage
                  /\ \A f \in Fields :
                        gpu_usage[pdev].last_drm_data[f]
                            = exact_sum({c \in cs : c[3] = pdev}, f)

\* C4: Rate formula.  After a call that stored the tick, every engine rate
\* of every entry is (S1.field - S0.field) * (T1 - T0), where S1 is the
\* snapshot of the tick, T1 its timestamp, and S0, T0 the snapshot and
\* timestamp the entry held before; for an entry created by the call S0 is
\* the zero snapshot and T0 = T1.
C4_RateFormula ==
    result = "reconciled" =>
        \A pdev \in DOMAIN gpu_usage :
            LET first == pdev \notin DOMAIN prev_usage
                S0 == IF first THEN DrmData_new ELSE prev_usage[pdev].last_drm_data
                T0 == IF first THEN clock ELSE prev_usage[pdev].last_calc_timestamp
                S1 == tick_reduced[pdev]
            IN  \A e \in Engines :
                    /\ BigLeq(S0[e.time], S1[e.time])
                    /\ gpu_usage[pdev][e.rate]
                          = BigMulSmall(BigSub(S1[e.time], S0[e.time]), clock - T0)

\* the reference of the rate formula: render 100 ms, then 150 ms half a
\* second later, gives 0.05 s * 0.5 s = 0.025
C4_Witness ==
    /\ result = "reconciled"
    /\ PdevA \in DOMAIN prev_usage /\ PdevA \in DOMAIN gpu_usage
    /\ prev_usage[PdevA].last_drm_data.render_time = Dec("100000000")
    /\ gpu_usage[PdevA].last_drm_data.render_time = Dec("150000000")
    /\ clock - prev_usage[PdevA].last_calc_timestamp = 500
    /\ gpu_usage[PdevA].render = Dec("25000000000")

\* C5: First-observation state.  After a call that stored the tick, every
\* device key of the tick has an entry whose stored snapshot is the
\* snapshot computed on the tick and whose timestamp is the tick's capture
\* time, whether the call created the entry or found it.
C5_StoredSnapshot ==
    result = "reconciled" =>
        \A pdev \in DOMAIN tick_reduced :
            /\ pdev \in DOMAIN gpu_usage
            /\ gpu_usage[pdev].last_drm_data = tick_reduced[pdev]
            /\ gpu_usage[pdev].last_calc_timestamp = clock

\* one call creates an entry with a non-zero snapshot and restamps an
\* entry that an earlier call created
C5_Witness ==
    /\ result = "reconciled"
    /\ \E pdev \in DOMAIN gpu_usage \ DOMAIN prev_usage :
          gpu_usage[pdev].last_drm_data # DrmData_new
    /\ \E pdev \in DOMAIN gpu_usage \cap DOMAIN prev_usage :
          /\ prev_usage[pdev].last_calc_timestamp < clock
          /\ gpu_usage[pdev].last_calc_timestamp = clock

\* C6: Client-id deduplication.  The records of a tick are as many as the
\* distinct client-identifier values of its files: files with the same
\* identifier give one record, files with different identifiers one each.
C6_OneRecordPerClient ==
    (ticks > 0 /\ dir.ok) =>
        Cardinality(DOMAIN tick_drm_map)
            = Cardinality({c[1] : c \in contexts(dir.files)})

\* C9: Discard on missing client id.  The per-device snapshots of a tick,
\* and the device keys stored for it, are those of the same listing
\* without the files whose record has no client-identifier key.
C9_DiscardWithoutClientId ==
    (ticks > 0 /\ dir.ok) =>
        \E without \in {snapshots(with_client_id(dir.files), overflow_checks)} :
            /\ tick_reduced = without.reduced
            /\ result = "no client" <=> DOMAIN without.reduced = {}
            /\ result = "reconciled" =>
                  /\ DOMAIN gpu_usage = DOMAIN without.reduced
                  /\ \A pdev \in DOMAIN gpu_usage :
                        gpu_usage[pdev].last_drm_data = without.reduced[pdev]

\* a file without a client id that names device B and carries engine and
\* memory keys, next to a client of device A: only A is stored
C9_Witness ==
    /\ result = "reconciled"
    /\ \E i \in 1..Len(dir.files) : dir.files[i] = FdNoClient
    /\ DOMAIN gpu_usage = {PdevA}
    /\ gpu_usage[PdevA].last_drm_data.render_time = Dec("100000000")

\* C10: Non-negative delta.  While no client context has shown a counter
\* below its own earlier value, no update computes a negative delta: the
\* Duration subtraction of GpuUsage::update never underflows.
C10_NonNegativeDelta ==
    monotone => panicked # "overflow when subtracting durations"

---------------------------------------------------------------------------
(* Properties of the conversions                                          *)

\* C7: Unit conversion table.  For "<integer> <unit>": a duration is the
\* integer in ns, us or ms, and zero for any other unit, a missing
\* separator or an unparseable integer; a memory size is the integer for
\* kib, the integer divided by 1024 for mib, the integer times 1024 for any
\* other unit, with an unparseable integer counting as 0 and a missing
\* separator giving 0.
C7_ConversionTable ==
    \E split \in {split_once(arg, " ")} :
      \E amount \in {parse(split.l, U64Max)} :
        /\ ret.of = "duration_from_string" =>
              ret.val = IF ~split.some \/ ~amount.ok THEN <<>>
                        ELSE CASE split.r = "ns" -> amount.val
                               [] split.r = "us" -> BigMulSmall(amount.val, 1000)
                               [] split.r = "ms" -> BigMulSmall(amount.val, 1000000)
                               [] OTHER -> <<>>
        /\ ret.of = "ram_from_string" =>
              /\ ret.panic = ""
              /\ ret.val = IF ~split.some \/ ~amount.ok THEN <<>>
                           ELSE CASE split.r = "kib" -> amount.val
                                  [] split.r = "mib" -> BigDivSmall(amount.val, 1024)
                                  [] OTHER -> BigMulSmall(amount.val, 1024)

\* C8: Engine mapping with video fan-out.  The DrmData of a record has
\* render = render + gfx, encode = enc + enc_1 + video, decode = dec +
\* video, and compute, copy and video-enhance taken directly, an absent key
\* counting as zero; no other key changes an engine field.
C8_EngineMapping ==
    ret.of = "to_drm_data" =>
        LET D(key) == IF key \in DOMAIN arg THEN duration_from_string(arg[key])
                      ELSE <<>>
            data == ret.val.data
        IN  /\ data.render_time = BigAdd(D("drm-engine-render"), D("drm-engine-gfx"))
            /\ data.encode_time = BigAdd(BigAdd(D("drm-engine-enc"), D("drm-engine-enc_1")),
                                         D("drm-engine-video"))
            /\ data.decode_time = BigAdd(D("drm-engine-dec"), D("drm-engine-video"))
            /\ data.computation_time = D("drm-engine-compute")
            /\ data.copy_time = D("drm-engine-copy")
            /\ data.video_enhance_time = D("drm-engine-video-enhance")

\* a record with video, enc and dec: the video time is in encode and in
\* decode
C8_Witness ==
    /\ ret.of = "to_drm_data"
    /\ DOMAIN arg = {"drm-engine-video", "drm-engine-enc", "drm-engine-dec"}
    /\ arg["drm-engine-video"] = "3 ms"
    /\ arg["drm-engine-enc"] = "5 us"
    /\ arg["drm-engine-dec"] = "3 ms"
    /\ ret.val.data.encode_time = Dec("3005000")
    /\ ret.val.data.decode_time = Dec("6000000")

====
